---- MODULE Spec2Model ----
(***************************************************************************)
(* A model of fsmonitor.c: the index extension codec, the oracle refresh   *)
(* protocol, the path invalidator and the enable/disable/load lifecycle.   *)
(*                                                                         *)
(* Strings are sequences of byte values (ASCII codes), so that the byte    *)
(* order of the index, case folding and NUL splitting are what the code    *)
(* computes.  Positions keep C's 0-based numbering in every operator that  *)
(* models a C function; cache[pos + 1] is the entry at C position pos.     *)
(***************************************************************************)
EXTENDS Integers, Sequences, FiniteSets, TLC

\* ------------------------------------------------------------------ bytes

NUL == 0
SLASH == 47

\* A NULL pointer (a token or bitmap that is absent): no byte string equals it.
NULL == << -1 >>

Max(a, b) == IF a > b THEN a ELSE b

\* memcmp order on byte strings, a proper prefix sorting first.
RECURSIVE BytesLess(_, _)
BytesLess(a, b) ==
    IF a = <<>> THEN b # <<>>
    ELSE IF b = <<>> THEN FALSE
    ELSE IF Head(a) # Head(b) THEN Head(a) < Head(b)
    ELSE BytesLess(Tail(a), Tail(b))

starts_with(str, prefix) ==
    /\ Len(prefix) <= Len(str)
    /\ SubSeq(str, 1, Len(prefix)) = prefix

\* ASCII case folding, as the name-hash compares names when icase is set.
FoldByte(c) == IF c >= 65 /\ c <= 90 THEN c + 32 ELSE c
FoldStr(s) == [i \in 1..Len(s) |-> FoldByte(s[i])]

\* ------------------------------------------- the index, as the core uses it

\* Lookup by exact path: the position, or -(insertion point) - 1.
index_name_pos(ist, name) ==
    LET n == Len(ist.cache)
        hits == {i \in 1..n : ist.cache[i].name = name}
        before == {i \in 1..n : BytesLess(ist.cache[i].name, name)}
    IN  IF hits # {} THEN (CHOOSE i \in hits : \A j \in hits : i <= j) - 1
        ELSE -Cardinality(before) - 1

\* Case-folded file lookup in the name-hash: the position of an entry whose
\* name equals name ignoring case, or -1 (no entry).
index_file_exists(ist, name) ==
    LET hits == {i \in 1..Len(ist.cache) :
                    FoldStr(ist.cache[i].name) = FoldStr(name)}
    IN  IF hits = {} THEN -1
        ELSE (CHOOSE i \in hits : \A j \in hits : i <= j) - 1

\* The leading directories of one entry name, without the trailing slash.
DirsOf(name) == {SubSeq(name, 1, k - 1) : k \in {j \in 1..Len(name) : name[j] = SLASH}}

\* Case-folded directory lookup in the directory name-hash: the stored
\* spelling of a directory that equals name ignoring case, or NULL.
index_dir_exists2(ist, name) ==
    LET hits == {i \in 1..Len(ist.cache) :
                    \E d \in DirsOf(ist.cache[i].name) : FoldStr(d) = FoldStr(name)}
    IN  IF hits = {} \/ name = <<>> THEN NULL
        ELSE LET i == CHOOSE h \in hits : \A j \in hits : h <= j
             IN  SubSeq(ist.cache[i].name, 1, Len(name))

\* The untracked cache records the paths it was told to invalidate.
untracked_cache_invalidate_path(ist, path) ==
    IF ist.untracked.present
    THEN [ist EXCEPT !.untracked.invalidated = @ \cup {path}]
    ELSE ist

\* ------------------------------------------------------ path invalidator

my_invalidate_untracked_cache(ist, name) ==
    IF Len(name) = 0 THEN ist
    ELSE IF name[Len(name)] = SLASH
         THEN untracked_cache_invalidate_path(ist, SubSeq(name, 1, Len(name) - 1))
         ELSE untracked_cache_invalidate_path(ist, name)

\* A variant that flips the flag instead of clearing it.
flip_ce_fsm(ist, pos) ==
    [ist EXCEPT !.cache[pos + 1].valid = ~@]

\* Clears CE_FSMONITOR_VALID on the entry at C position pos.
my_invalidate_ce_fsm(ist, pos) ==
    [ist EXCEPT !.cache[pos + 1].valid = FALSE]

\* The forward scan of fsmonitor_refresh_callback_slash from C position i.
RECURSIVE ScanCone(_, _, _, _)
ScanCone(ist, name, i, nr_in_cone) ==
    IF i >= Len(ist.cache) THEN [ist |-> ist, n |-> nr_in_cone]
    ELSE IF ~starts_with(ist.cache[i + 1].name, name)
         THEN [ist |-> ist, n |-> nr_in_cone]
         ELSE ScanCone(my_invalidate_ce_fsm(ist, i), name, i + 1, nr_in_cone + 1)

\* A variant whose scan starts one entry after the position.
scan_after_position(ist, name, pos) ==
    ScanCone(my_invalidate_untracked_cache(ist, name), name,
             (IF pos < 0 THEN -pos - 1 ELSE pos) + 1, 0)

fsmonitor_refresh_callback_slash(ist, name, pos) ==
    ScanCone(my_invalidate_untracked_cache(ist, name), name,
             IF pos < 0 THEN -pos - 1 ELSE pos, 0)

my_callback_name_hash(ist, name) ==
    LET ce == index_file_exists(ist, name)
    IN  IF ce < 0 THEN [ist |-> ist, n |-> 0]
        ELSE [ist |-> my_invalidate_ce_fsm(
                          my_invalidate_untracked_cache(ist, ist.cache[ce + 1].name), ce),
              n |-> 1]

my_callback_dir_name_hash(ist, name) ==
    LET canonical_path == index_dir_exists2(ist, name)
    IN  IF canonical_path = NULL THEN [ist |-> ist, n |-> 0]
        ELSE IF SubSeq(canonical_path, 1, Len(name)) = name
             THEN [ist |-> ist, n |-> 0]
             ELSE LET work == Append(canonical_path, SLASH)
                  IN  fsmonitor_refresh_callback_slash(ist, work, index_name_pos(ist, work))

fsmonitor_refresh_callback_unqualified(ist, name, pos) ==
    LET ist1 == my_invalidate_untracked_cache(ist, name)
    IN  IF pos >= 0 THEN [ist |-> my_invalidate_ce_fsm(ist1, pos), n |-> 1]
        ELSE LET work_path == Append(name, SLASH)
             IN  fsmonitor_refresh_callback_slash(ist1, work_path,
                                                  index_name_pos(ist1, work_path))

\* A variant without the case-folded retry.
no_icase_retry(ist, name) == [ist |-> ist, n |-> 0]

fsmonitor_refresh_callback_unqualified_icase(ist, name) ==
    LET r == my_callback_name_hash(ist, name)
    IN  IF r.n # 0 THEN r ELSE my_callback_dir_name_hash(ist, name)

\* name has its trailing slash; the directory lookup gets name without it.
fsmonitor_refresh_callback_slash_icase(ist, name) ==
    LET r == my_callback_name_hash(ist, name)
    IN  IF r.n # 0 THEN r
        ELSE my_callback_dir_name_hash(ist, SubSeq(name, 1, Len(name) - 1))

\* prev is the byte in front of name in the response buffer: name[len - 1]
\* reads it when name is empty.
fsmonitor_refresh_callback(ist, name, prev, ignore_case) ==
    LET len == Len(name)
        pos == index_name_pos(ist, name)
        last == IF len = 0 THEN prev ELSE name[len]
    IN  IF last = SLASH
        THEN LET r == fsmonitor_refresh_callback_slash(ist, name, pos)
             IN  IF ignore_case /\ r.n = 0
                 THEN fsmonitor_refresh_callback_slash_icase(r.ist, name).ist
                 ELSE r.ist
        ELSE LET r == fsmonitor_refresh_callback_unqualified(ist, name, pos)
             IN  IF ignore_case /\ r.n = 0
                 THEN fsmonitor_refresh_callback_unqualified_icase(r.ist, name).ist
                 ELSE r.ist

\* ------------------------------------------------------- refresh driver

\* "%PRIu64": the decimal digits of n, most significant first.
RECURSIVE decimal_ascii(_)
decimal_ascii(n) ==
    IF n < 10 THEN <<48 + n>>
    ELSE Append(decimal_ascii(n \div 10), 48 + (n % 10))

\* "builtin:fake"
builtin_fake == <<98, 117, 105, 108, 116, 105, 110, 58, 102, 97, 107, 101>>

\* What strbuf_addstr copies from a buffer: the bytes before the first NUL.
RECURSIVE c_string(_)
c_string(buf) ==
    IF buf = <<>> \/ Head(buf) = NUL THEN <<>>
    ELSE <<Head(buf)>> \o c_string(Tail(buf))

\* buf[i] of a strbuf: its bytes, then the terminating NUL; a read past the
\* terminator yields whatever the allocation holds (ub).
strbuf_at(buf, i, ub) ==
    IF i < Len(buf) THEN buf[i + 1]
    ELSE IF i = Len(buf) THEN NUL
    ELSE ub

fsmonitor_force_update_threshold == 100

\* The C offsets i in lo..hi-1 with buf[i] = NUL, ascending (by halving, so
\* that a long response does not nest deeply).
RECURSIVE nul_offsets(_, _, _)
nul_offsets(buf, lo, hi) ==
    IF hi <= lo THEN <<>>
    ELSE IF hi = lo + 1 THEN (IF buf[lo + 1] = NUL THEN <<lo>> ELSE <<>>)
    ELSE LET mid == (lo + hi) \div 2
         IN  nul_offsets(buf, lo, mid) \o nul_offsets(buf, mid, hi)

\* One record per NUL in nuls, and the rest of the buffer when bytes follow
\* the last NUL; each record with the offset it starts at.
records_between(buf, bol, nuls) ==
    [k \in 1..Len(nuls) |->
        [bol |-> IF k = 1 THEN bol ELSE nuls[k - 1] + 1,
         name |-> SubSeq(buf, (IF k = 1 THEN bol ELSE nuls[k - 1] + 1) + 1, nuls[k])]]
    \o (IF (IF nuls = <<>> THEN bol ELSE nuls[Len(nuls)] + 1) < Len(buf)
        THEN <<[bol |-> IF nuls = <<>> THEN bol ELSE nuls[Len(nuls)] + 1,
                name |-> SubSeq(buf, (IF nuls = <<>> THEN bol ELSE nuls[Len(nuls)] + 1) + 1,
                                Len(buf))]>>
        ELSE <<>>)

\* The strings the record loop of apply_results hands to
\* fsmonitor_refresh_callback, in order.
payload_records(buf, bol) == records_between(buf, bol, nul_offsets(buf, bol, Len(buf)))

\* fsmonitor_refresh_callback on records lo..hi in order (by halving).  The
\* byte in front of a record at offset 0 lies outside the buffer (ub).
RECURSIVE apply_records(_, _, _, _, _, _, _)
RECURSIVE apply_rest(_, _, _, _, _, _, _)
apply_records(ist, buf, recs, lo, hi, ub, ignore_case) ==
    IF hi < lo THEN ist
    ELSE IF hi = lo
    THEN fsmonitor_refresh_callback(ist, recs[lo].name,
                                    IF recs[lo].bol = 0 THEN ub ELSE buf[recs[lo].bol],
                                    ignore_case)
    ELSE apply_rest(apply_records(ist, buf, recs, lo, (lo + hi) \div 2, ub, ignore_case),
                    buf, recs, (lo + hi) \div 2 + 1, hi, ub, ignore_case)

\* The records after the ones that produced done (the test makes TLC compute
\* done before it goes on).
apply_rest(done, buf, recs, lo, hi, ub, ignore_case) ==
    IF Len(done.cache) >= 0
    THEN apply_records(done, buf, recs, lo, hi, ub, ignore_case)
    ELSE done

\* The record loop over recs, and its count.
apply_counted(ist, buf, recs, ub, ignore_case) ==
    [apply_records(ist, buf, recs, 1, Len(recs), ub, ignore_case)
        EXCEPT !.tr.count = Len(recs),
               !.tr.names = [k \in 1..Len(recs) |-> recs[k].name]]

\* The record loop of apply_results: every callback it makes, and count.
apply_loop(ist, buf, bol, ub, ignore_case) ==
    apply_counted(ist, buf, payload_records(buf, bol), ub, ignore_case)

\* A variant that forces the update already at the threshold.
results_applied_at_threshold(r) ==
    [r EXCEPT !.untracked.use_fsmonitor = IF r.untracked.present THEN TRUE ELSE @,
              !.cache_changed = IF r.tr.count >= fsmonitor_force_update_threshold
                                THEN @ \cup {"FSMONITOR_CHANGED"} ELSE @]

\* After the record loop (r is the index it left, r.tr.count its count).
results_applied(r) ==
    [r EXCEPT !.untracked.use_fsmonitor = IF r.untracked.present THEN TRUE ELSE @,
              !.cache_changed = IF r.tr.count > fsmonitor_force_update_threshold
                                THEN @ \cup {"FSMONITOR_CHANGED"} ELSE @]

\* A variant of the else branch that keeps the flags.
results_keep_flags(ist) ==
    [ist EXCEPT !.untracked.use_fsmonitor = IF ist.untracked.present THEN FALSE ELSE @]

\* A variant of the else branch that sets FSMONITOR_CHANGED in any case.
results_always_changed(ist) ==
    [ist EXCEPT !.cache = [k \in 1..Len(ist.cache) |-> [ist.cache[k] EXCEPT !.valid = FALSE]],
                !.cache_changed = @ \cup {"FSMONITOR_CHANGED"},
                !.untracked.use_fsmonitor = IF ist.untracked.present THEN FALSE ELSE @]

\* The else branch of apply_results: invalidate everything.
results_invalidate_all(ist) ==
    [ist EXCEPT !.cache = [k \in 1..Len(ist.cache) |-> [ist.cache[k] EXCEPT !.valid = FALSE]],
                !.cache_changed = IF \E k \in 1..Len(ist.cache) : ist.cache[k].valid
                                  THEN @ \cup {"FSMONITOR_CHANGED"} ELSE @,
                !.untracked.use_fsmonitor = IF ist.untracked.present THEN FALSE ELSE @]

\* What the run records about itself in ist.tr: the query's outcome (with
\* v2_result, what the V2 hook call returned) and the index as apply_results
\* found it; ist.queries gets the oracle calls made.
traced(ist, q) ==
    [ist EXCEPT !.tr =
        [passed |-> TRUE, calls |-> q.calls,
         query_success |-> q.query_success, is_trivial |-> q.is_trivial,
         count |-> 0, names |-> <<>>,
         bol |-> q.bol, query_result |-> q.query_result,
         valid_before |-> {k \in 1..Len(ist.cache) : ist.cache[k].valid},
         changed_before |-> ist.cache_changed,
         token_before |-> ist.fsmonitor_last_update,
         untracked_before |-> ist.untracked.invalidated,
         hook_version |-> q.hook_version, now |-> q.now, v2_result |-> q.v2_result],
                !.queries = Append(@, q.calls)]

\* A variant of apply_results that leaves the index token as it was.
apply_results_keep_token(ist, q, ub, ignore_case) ==
    IF q.query_success /\ ~q.is_trivial
    THEN results_applied(apply_loop(traced(ist, q), q.query_result, q.bol, ub, ignore_case))
    ELSE results_invalidate_all(traced(ist, q))

\* The apply_results step with the query's outcome in q: query_success,
\* is_trivial, query_result, bol, last_update_token, and the oracle calls made.
apply_results(ist, q, ub, ignore_case) ==
    [(IF q.query_success /\ ~q.is_trivial
      THEN results_applied(apply_loop(traced(ist, q), q.query_result, q.bol, ub, ignore_case))
      ELSE results_invalidate_all(traced(ist, q)))
        EXCEPT !.fsmonitor_last_update = q.last_update_token]

\* The IPC branch: res is what fsmonitor_ipc__send_query returned.
query_ipc(ist, res, ub) ==
    IF res.ok
    THEN [query_success |-> TRUE,
          is_trivial |-> strbuf_at(res.out, Len(c_string(res.out)) + 1, ub) = SLASH,
          query_result |-> res.out, bol |-> Len(c_string(res.out)) + 1,
          last_update_token |-> c_string(res.out),
          calls |-> <<"ipc">>, hook_version |-> -1, now |-> -1, v2_result |-> "none"]
    ELSE [query_success |-> FALSE, is_trivial |-> FALSE, query_result |-> res.out,
          bol |-> 0, last_update_token |-> builtin_fake, calls |-> <<"ipc">>,
          hook_version |-> -1, now |-> -1, v2_result |-> "none"]

\* Whether the hook branch calls the hook with protocol version 2.
hook_calls_v2(ist, hook_version) ==
    ist.fsmonitor_last_update # NULL /\ hook_version \in {-1, 2}

\* The hook branch before any call: last_update_token holds the timestamp
\* when the configured version is 1.
query_none(hook_version, now) ==
    [query_success |-> FALSE, is_trivial |-> FALSE, query_result |-> <<>>,
     bol |-> 0,
     last_update_token |-> IF hook_version = 1 THEN decimal_ascii(now) ELSE <<>>,
     calls |-> <<>>, hook_version |-> hook_version, now |-> now, v2_result |-> "none"]

\* The hook branch up to and including the V2 call: res2 is that call's
\* result (read only when the call is made), now is getnanotime().
query_hook_v2(ist, hook_version, res2, now, ub) ==
    IF ~hook_calls_v2(ist, hook_version) THEN query_none(hook_version, now)
    ELSE IF res2.ok
    THEN IF Len(c_string(res2.out)) = 0
         THEN [query_none(hook_version, now)
                  EXCEPT !.query_result = res2.out, !.calls = <<"hook2">>,
                         !.hook_version = IF hook_version < 0 THEN 2 ELSE hook_version,
                         !.last_update_token = <<>>, !.v2_result = "success"]
         ELSE [query_success |-> TRUE,
               is_trivial |-> strbuf_at(res2.out, Len(c_string(res2.out)) + 1, ub) = SLASH,
               query_result |-> res2.out, bol |-> Len(c_string(res2.out)) + 1,
               last_update_token |-> c_string(res2.out), calls |-> <<"hook2">>,
               hook_version |-> IF hook_version < 0 THEN 2 ELSE hook_version,
               now |-> now, v2_result |-> "success"]
    ELSE IF hook_version < 0
    THEN [query_none(hook_version, now)
             EXCEPT !.query_result = res2.out, !.calls = <<"hook2">>,
                    !.hook_version = 1,
                    !.last_update_token = decimal_ascii(now), !.v2_result = "failed"]
    ELSE [query_none(hook_version, now)
             EXCEPT !.query_result = res2.out, !.calls = <<"hook2">>,
                    !.v2_result = "failed"]

\* A variant that makes the V1 call whenever a token is stored.
v1_call_whatever_version(ist, q) == ist.fsmonitor_last_update # NULL

\* Whether the V1 call follows (the stored token exists and hook_version is 1
\* by configuration or by fallback).
hook_calls_v1(ist, q) ==
    ist.fsmonitor_last_update # NULL /\ q.hook_version = 1

\* The V1 call: its output is appended to query_result.
query_hook_v1(q, res1) ==
    [q EXCEPT !.query_result = @ \o res1.out,
              !.calls = Append(@, "hook1"),
              !.query_success = res1.ok,
              !.is_trivial = IF res1.ok
                             THEN strbuf_at(q.query_result \o res1.out, 0, NUL) = SLASH
                             ELSE @]

\* The hook branch after the V2 step left q.
query_hook_rest(ist, q, res1) ==
    IF hook_calls_v1(ist, q) THEN query_hook_v1(q, res1) ELSE q

query_hook(ist, hook_version, res2, res1, now, ub) ==
    query_hook_rest(ist, query_hook_v2(ist, hook_version, res2, now, ub), res1)

\* --------------------------------------------------------- extension codec

INDEX_EXTENSION_VERSION1 == 1
INDEX_EXTENSION_VERSION2 == 2

\* A variant with the least significant byte first.
RECURSIVE put_le(_, _)
put_le(nbytes, v) ==
    IF nbytes = 0 THEN <<>>
    ELSE <<v % 256>> \o put_le(nbytes - 1, v \div 256)

\* put_be32 / get_be32, put_be64 / get_be64 (most significant byte first).
RECURSIVE put_be(_, _)
put_be(nbytes, v) ==
    IF nbytes = 0 THEN <<>>
    ELSE Append(put_be(nbytes - 1, v \div 256), v % 256)

RECURSIVE get_be(_)
get_be(bytes) ==
    IF bytes = <<>> THEN 0
    ELSE get_be(SubSeq(bytes, 1, Len(bytes) - 1)) * 256 + bytes[Len(bytes)]

\* The compressed bitmap: the set positions and bit_size (one past the highest
\* position ever set).
ewah_new == [bits |-> {}, bit_size |-> 0]
\* istate->fsmonitor_dirty when it is NULL.
NO_BITMAP == [bits |-> {}, bit_size |-> -1]
ewah_set(bm, i) == [bits |-> bm.bits \cup {i}, bit_size |-> Max(bm.bit_size, i + 1)]

\* The bitmap after ewah_set on each position of S.
BitmapAt(S) ==
    [bits |-> S, bit_size |-> IF S = {} THEN 0 ELSE 1 + CHOOSE m \in S : \A x \in S : x <= m]

RECURSIVE SumPow2(_)
SumPow2(S) ==
    IF S = {} THEN 0
    ELSE LET b == CHOOSE x \in S : TRUE IN 2 ^ b + SumPow2(S \ {b})

RECURSIVE BitsOf(_, _)
BitsOf(v, b) ==
    IF v = 0 THEN {}
    ELSE (IF v % 2 = 1 THEN {b} ELSE {}) \cup BitsOf(v \div 2, b + 1)

\* One 64-bit word of the compressed stream per 8 bytes.  The first word is
\* the run-length marker (its literal-word count sits at bit 33: byte 4 holds
\* twice the count); a bitmap with a set bit carries one literal word after it.
ewah_serialize_strbuf(bm) ==
    LET lit == bm.bits # {}
        words == IF lit
                 THEN <<0, 0, 0, 2, 0, 0, 0, 0>> \o put_be(8, SumPow2(bm.bits))
                 ELSE <<0, 0, 0, 0, 0, 0, 0, 0>>
    IN  put_be(4, bm.bit_size) \o put_be(4, Len(words) \div 8) \o words \o put_be(4, 0)

\* ewah_read_mmap(map, len): the bitmap, ret (the number of bytes consumed, or
\* -1 when len ends before the bit size, the length, the words or the marker
\* position) and read (how many bytes of map it looked at).
ewah_read_mmap(map, len) ==
    IF len < 4 THEN [ret |-> -1, read |-> 0, bm |-> ewah_new]
    ELSE IF len < 8 THEN [ret |-> -1, read |-> 4, bm |-> ewah_new]
    ELSE LET bit_size == get_be([k \in 1..4 |-> map[k]])
             buffer_size == get_be([k \in 1..4 |-> map[4 + k]])
             data_len == buffer_size * 8
             total == 8 + data_len + 4
         IN  IF len < 8 + data_len THEN [ret |-> -1, read |-> 8, bm |-> ewah_new]
             ELSE IF len < total THEN [ret |-> -1, read |-> 8 + data_len, bm |-> ewah_new]
             ELSE LET lits == IF buffer_size >= 2 THEN map[12] \div 2 ELSE 0
                      v == IF lits >= 1 THEN get_be([k \in 1..8 |-> map[16 + k]]) ELSE 0
                  IN  [ret |-> total, read |-> total,
                       bm |-> [bits |-> BitsOf(v, 0), bit_size |-> bit_size]]

\* write_fsmonitor_extension: the bytes appended to sb, and the index with its
\* bitmap released.  bug is the BUG() of assert_index_minimum.
write_fsmonitor_extension(ist) ==
    LET ewah == ewah_serialize_strbuf(ist.fsmonitor_dirty)
    IN  [bug |-> ist.fsmonitor_dirty.bit_size > Len(ist.cache),
         sb |-> put_be(4, INDEX_EXTENSION_VERSION2)
                \o c_string(ist.fsmonitor_last_update) \o <<NUL>>
                \o put_be(4, Len(ewah)) \o ewah,
         ist |-> [ist EXCEPT !.fsmonitor_dirty = NO_BITMAP]]

\* data[i] for a C offset i; an offset at or beyond sz lies outside the
\* extension and reads as whatever follows it in the mapped file (ub).
data_at(data, i, ub) == IF i < Len(data) THEN data[i + 1] ELSE ub
data_range(data, from, n, ub) == [k \in 1..n |-> data_at(data, from + k - 1, ub)]

\* The token of a version 2 extension: strbuf_addstr copies from offset i up
\* to the first NUL and does not know sz.  Outside the data every byte reads
\* as ub; the scan is followed for at most one byte outside it.
RECURSIVE v2_token(_, _, _)
v2_token(data, i, ub) ==
    IF i > Len(data) THEN <<>>
    ELSE IF data_at(data, i, ub) = NUL THEN <<>>
    ELSE <<data_at(data, i, ub)>> \o v2_token(data, i + 1, ub)

\* A variant that asks for the length of a version 1 extension.
too_short_for_v1(sz) == sz < 4 + 8 + 4

\* sz < sizeof(uint32_t) + 1 + sizeof(uint32_t)
too_short(sz) == sz < 4 + 1 + 4

\* read_fsmonitor_extension(istate, data, sz).  err is "" on success; top is
\* one past the highest offset read (top > sz is a read outside the data);
\* hdr_version, ewah_size and ret are the function's locals (-1 before they
\* are assigned).
read_fsmonitor_extension(ist, data, ub) ==
    LET sz == Len(data)
        hdr_version == get_be(data_range(data, 0, 4, ub))
    IN  IF too_short(sz)
        THEN [ist |-> ist, err |-> "Corrupt", top |-> 0,
              hdr_version |-> -1, ewah_size |-> -1, ret |-> -1]
        ELSE IF hdr_version \notin {INDEX_EXTENSION_VERSION1, INDEX_EXTENSION_VERSION2}
        THEN [ist |-> ist, err |-> "BadVersion", top |-> 4,
              hdr_version |-> hdr_version, ewah_size |-> -1, ret |-> -1]
        ELSE
        LET last_update == IF hdr_version = INDEX_EXTENSION_VERSION1
                           THEN decimal_ascii(get_be(data_range(data, 4, 8, ub)))
                           ELSE v2_token(data, 4, ub)
            index == IF hdr_version = INDEX_EXTENSION_VERSION1
                     THEN 4 + 8
                     ELSE 4 + Len(last_update) + 1
            ist1 == [ist EXCEPT !.fsmonitor_last_update = last_update]
            ewah_size == get_be(data_range(data, index, 4, ub))
            r == ewah_read_mmap(data_range(data, index + 4, ewah_size, ub), ewah_size)
            top == index + 4 + r.read
        IN  IF r.ret # ewah_size
            THEN [ist |-> ist1, err |-> "CorruptBitmap", top |-> top,
                  hdr_version |-> hdr_version, ewah_size |-> ewah_size, ret |-> r.ret]
            ELSE IF r.bm.bit_size > Len(ist.cache)
            THEN [ist |-> [ist1 EXCEPT !.fsmonitor_dirty = r.bm], err |-> "BUG", top |-> top,
                  hdr_version |-> hdr_version, ewah_size |-> ewah_size, ret |-> r.ret]
            ELSE [ist |-> [ist1 EXCEPT !.fsmonitor_dirty = r.bm], err |-> "", top |-> top,
                  hdr_version |-> hdr_version, ewah_size |-> ewah_size, ret |-> r.ret]

\* A variant that numbers the bits by cache position, removed entries included.
fill_by_cache_position(ist) ==
    [ist EXCEPT !.fsmonitor_dirty =
        BitmapAt({k - 1 : k \in {j \in 1..Len(ist.cache) :
                                    ~ist.cache[j].remove /\ ~ist.cache[j].valid}})]

\* A variant that sets the bits of the entries that have the flag.
fill_valid_entries(ist) ==
    [ist EXCEPT !.fsmonitor_dirty =
        BitmapAt({k - 1 : k \in {j \in 1..Len(SelectSeq(ist.cache, LAMBDA ce : ~ce.remove)) :
                                    SelectSeq(ist.cache, LAMBDA ce : ~ce.remove)[j].valid}})]

\* fill_fsmonitor_bitmap: the loop over C positions i.
RECURSIVE fill_loop(_, _, _, _)
fill_loop(cache, i, skipped, bm) ==
    IF i >= Len(cache) THEN bm
    ELSE IF cache[i + 1].remove THEN fill_loop(cache, i + 1, skipped + 1, bm)
    ELSE IF ~cache[i + 1].valid
         THEN fill_loop(cache, i + 1, skipped, ewah_set(bm, i - skipped))
         ELSE fill_loop(cache, i + 1, skipped, bm)

fill_fsmonitor_bitmap(ist) ==
    [ist EXCEPT !.fsmonitor_dirty = fill_loop(ist.cache, 0, 0, ewah_new)]

\* ------------------------------------------------------------- lifecycle

\* The record ist that the functions below pass on is struct index_state
\* together with what the process carries along: now (the next reading of
\* getnanotime()), tr (what the refresh of the current operation did),
\* queries (the oracle calls of each refresh of this process that passed the
\* guard) and bug (a BUG() of assert_index_minimum was hit).

NoTrace ==
    [passed |-> FALSE, calls |-> <<>>, query_success |-> FALSE, is_trivial |-> FALSE,
     count |-> 0, names |-> <<>>, bol |-> 0, query_result |-> <<>>,
     valid_before |-> {}, changed_before |-> {}, token_before |-> NULL,
     untracked_before |-> {},
     hook_version |-> -1, now |-> -1, v2_result |-> "none"]

fsmonitor_enabled(repo) == repo.fsm_mode \in {"hook", "ipc"}

\* core.fsmonitorhookversion: <<>> when unset, <<v>> when set to v.
fsmonitor_hook_version(repo) ==
    IF repo.hookversion = <<>> THEN -1
    ELSE IF repo.hookversion[1] \in {1, 2} THEN repo.hookversion[1]
    ELSE -1

\* A variant that leaves fsmonitor_has_run_once alone.
keep_has_run_once(ist) == ist

\* istate->fsmonitor_has_run_once = 1
set_has_run_once(ist) == [ist EXCEPT !.fsmonitor_has_run_once = TRUE]

\* A variant of refresh_fsmonitor that does not look at fsmonitor_has_run_once.
refresh_every_time(ist, repo, res2, res1, ub) ==
    IF ~fsmonitor_enabled(repo) THEN ist
    ELSE IF repo.fsm_mode = "ipc"
    THEN apply_results(set_has_run_once(ist),
                       query_ipc(ist, res2, ub), ub, repo.ignore_case)
    ELSE apply_results([set_has_run_once(ist) EXCEPT !.now = @ + 1],
                       query_hook(ist, fsmonitor_hook_version(repo), res2, res1, ist.now, ub),
                       ub, repo.ignore_case)

\* refresh_fsmonitor.  res2 is the result of the IPC query or of the V2 hook
\* call, res1 of the V1 hook call; the hook branch reads getnanotime() once.
refresh_fsmonitor(ist, repo, res2, res1, ub) ==
    IF ~fsmonitor_enabled(repo) \/ ist.fsmonitor_has_run_once THEN ist
    ELSE IF repo.fsm_mode = "ipc"
    THEN apply_results(set_has_run_once(ist),
                       query_ipc(ist, res2, ub), ub, repo.ignore_case)
    ELSE apply_results([set_has_run_once(ist) EXCEPT !.now = @ + 1],
                       query_hook(ist, fsmonitor_hook_version(repo), res2, res1, ist.now, ub),
                       ub, repo.ignore_case)

initialize_fsmonitor_last_update(ist) ==
    [ist EXCEPT !.fsmonitor_last_update = decimal_ascii(ist.now), !.now = @ + 1]

\* add_untracked_cache on an index that has an untracked cache of this
\* working tree keeps it.
add_untracked_cache(ist) == ist

\* add_fsmonitor up to its call of refresh_fsmonitor.
add_fsmonitor_reset(ist) ==
    [add_untracked_cache(initialize_fsmonitor_last_update(ist))
        EXCEPT !.cache_changed = @ \cup {"FSMONITOR_CHANGED"},
               !.cache = [k \in 1..Len(ist.cache) |-> [ist.cache[k] EXCEPT !.valid = FALSE]],
               !.untracked.use_fsmonitor = IF ist.untracked.present THEN TRUE ELSE @]

add_fsmonitor(ist, repo, res2, res1, ub) ==
    IF ist.fsmonitor_last_update = NULL
    THEN refresh_fsmonitor(add_fsmonitor_reset(ist), repo, res2, res1, ub)
    ELSE ist

\* A variant that keeps the token.
keep_token(ist) == ist

remove_fsmonitor(ist) ==
    IF ist.fsmonitor_last_update # NULL
    THEN [ist EXCEPT !.cache_changed = @ \cup {"FSMONITOR_CHANGED"},
                     !.fsmonitor_last_update = NULL]
    ELSE ist

assert_index_minimum(ist, pos) ==
    IF pos > Len(ist.cache) THEN [ist EXCEPT !.bug = TRUE] ELSE ist

\* fsmonitor_ewah_callback over every set bit: the entries at the set
\* positions lose the flag; a position outside the cache is a BUG().
ewah_each_bit(ist) ==
    [ist EXCEPT !.cache = [k \in 1..Len(ist.cache) |->
                              IF (k - 1) \in ist.fsmonitor_dirty.bits
                              THEN [ist.cache[k] EXCEPT !.valid = FALSE]
                              ELSE ist.cache[k]],
                !.bug = @ \/ \E b \in ist.fsmonitor_dirty.bits : b + 1 > Len(ist.cache)]

\* "Mark all entries valid": every entry that is not a gitlink.
mark_all_valid(ist) ==
    [ist EXCEPT !.cache = [k \in 1..Len(ist.cache) |->
                              IF ist.cache[k].gitlink THEN ist.cache[k]
                              ELSE [ist.cache[k] EXCEPT !.valid = TRUE]]]

\* A variant of the first half of tweak_fsmonitor that releases the loaded
\* bitmap only where it applies it.
tweak_bitmap_released_when_applied(ist, repo, res2, res1, ub) ==
    IF ist.fsmonitor_dirty = NO_BITMAP \/ ~fsmonitor_enabled(repo) THEN ist
    ELSE [refresh_fsmonitor(
              ewah_each_bit(assert_index_minimum(mark_all_valid(ist),
                                                 ist.fsmonitor_dirty.bit_size)),
              repo, res2, res1, ub)
            EXCEPT !.fsmonitor_dirty = NO_BITMAP]

\* The first half of tweak_fsmonitor: the loaded bitmap is applied when the
\* feature is enabled, and released.
tweak_bitmap(ist, repo, res2, res1, ub) ==
    IF ist.fsmonitor_dirty = NO_BITMAP THEN ist
    ELSE [(IF fsmonitor_enabled(repo)
           THEN refresh_fsmonitor(
                    ewah_each_bit(assert_index_minimum(mark_all_valid(ist),
                                                       ist.fsmonitor_dirty.bit_size)),
                    repo, res2, res1, ub)
           ELSE ist)
            EXCEPT !.fsmonitor_dirty = NO_BITMAP]

\* The second half: add_fsmonitor or remove_fsmonitor by the mode.
tweak_mode(ist, repo, res2, res1, ub) ==
    IF fsmonitor_enabled(repo)
    THEN add_fsmonitor(ist, repo, res2, res1, ub)
    ELSE remove_fsmonitor(ist)

tweak_fsmonitor(ist, repo, res2, res1, ub) ==
    tweak_mode(tweak_bitmap(ist, repo, res2, res1, ub), repo, res2, res1, ub)

\* ------------------------------------------------ the inputs of the model

\* Bounds: the processes one behaviour runs (the last one does not write the
\* index file), and the clock's first and last readings.
MaxProc == 2
ClockStart == 9
MaxClock == 12

\* Byte strings: "a", "b/c", "d", "src/a", "src/b", "srcfoo", "Src/A", "sub".
s_a == <<97>>
s_b_c == <<98, 47, 99>>
s_d == <<100>>
s_src_a == <<115, 114, 99, 47, 97>>
s_src_b == <<115, 114, 99, 47, 98>>
s_srcfoo == <<115, 114, 99, 102, 111, 111>>
s_Src_A == <<83, 114, 99, 47, 65>>
s_sub == <<115, 117, 98>>
\* "src", "src/", "SRC/", "zz", "t0", "t1"
s_src == <<115, 114, 99>>
s_src_dir == <<115, 114, 99, 47>>
s_SRC_dir == <<83, 82, 67, 47>>
s_zz == <<122, 122>>
s_t0 == <<116, 48>>
s_t1 == <<116, 49>>

File(name) == [name |-> name, gitlink |-> FALSE]
Gitlink(name) == [name |-> name, gitlink |-> TRUE]

\* The entries of the indexes the model starts from, in index order.
IndexConfigs ==
    { <<File(s_a), File(s_b_c), File(s_d)>>,
      <<File(s_src_a), File(s_src_b), File(s_srcfoo)>>,
      <<File(s_Src_A), Gitlink(s_sub)>>,
      <<>> }

Repeat(s, n) == [i \in 1..(n * Len(s)) |-> s[((i - 1) % Len(s)) + 1]]

\* Response payloads: no path; the trivial "/"; "/a"; "b/c\0"; "src/\0";
\* "src/a\0"; "src\0a" (a final record without NUL); "SRC/\0"; "\0a\0" and
\* "a\0\0d\0" (empty records); 101 records "zz\0"; 100 records "a\0".
Payloads ==
    { <<>>,
      <<SLASH>>,
      <<SLASH, 97>>,
      s_b_c \o <<NUL>>,
      s_src_dir \o <<NUL>>,
      s_src_a \o <<NUL>>,
      s_src \o <<NUL>> \o s_a,
      s_SRC_dir \o <<NUL>>,
      <<NUL>> \o s_a \o <<NUL>>,
      s_a \o <<NUL, NUL>> \o s_d \o <<NUL>>,
      Repeat(s_zz \o <<NUL>>, fsmonitor_force_update_threshold + 1),
      Repeat(s_a \o <<NUL>>, fsmonitor_force_update_threshold) }

\* The payloads of the lifecycle specification: no path, "/", "b/c\0", "src/a\0".
FewPayloads == { <<>>, <<SLASH>>, s_b_c \o <<NUL>>, s_src_a \o <<NUL>> }

NoRes == [ok |-> FALSE, out |-> <<>>]

\* What an IPC query or a V2 hook call can return: failure (with or without
\* output), "t1" NUL payload, an empty token field, and "t1" without the NUL.
Results2(payloads) ==
    {NoRes, [ok |-> FALSE, out |-> <<SLASH>>]}
    \cup {[ok |-> TRUE, out |-> s_t1 \o <<NUL>> \o p] : p \in payloads}
    \cup {[ok |-> TRUE, out |-> <<NUL>> \o s_a \o <<NUL>>], [ok |-> TRUE, out |-> s_t1]}

\* What a V1 hook call can return: failure, or a payload.
Results1(payloads) == {NoRes} \cup {[ok |-> TRUE, out |-> p] : p \in payloads}

\* An extension as a previous process wrote it.
ExtensionV2(token, bm) ==
    LET ewah == ewah_serialize_strbuf(bm)
    IN  put_be(4, INDEX_EXTENSION_VERSION2) \o token \o <<NUL>> \o put_be(4, Len(ewah)) \o ewah

\* A version 1 extension, as an older writer left it.
ExtensionV1(timestamp, bm) ==
    LET ewah == ewah_serialize_strbuf(bm)
    IN  put_be(4, INDEX_EXTENSION_VERSION1) \o put_be(8, timestamp) \o put_be(4, Len(ewah)) \o ewah

Names(entries) == {entries[k].name : k \in 1..Len(entries)}

\* The index file a process starts from: its entries, its extension (NULL when
\* it has none), the names the extension records clean, and whether a
\* process of this behaviour wrote it.
DiskOf(e, S) ==
    [entries |-> e, ext |-> ExtensionV2(s_t0, BitmapAt(S)),
     clean |-> {e[k].name : k \in {j \in 1..Len(e) : (j - 1) \notin S}},
     written |-> FALSE]

InitialDisks ==
    UNION { {[entries |-> e, ext |-> NULL, clean |-> {}, written |-> FALSE]}
            \cup {DiskOf(e, S) : S \in SUBSET (0..(Len(e) - 1))}
            \cup {[entries |-> e, ext |-> ExtensionV1(ClockStart - 1, BitmapAt({})),
                   clean |-> Names(e), written |-> FALSE]}
          : e \in IndexConfigs }

\* The index files of the lifecycle specification: no extension, or every
\* entry clean, or the first entry dirty.
FewDisks ==
    UNION { {[entries |-> e, ext |-> NULL, clean |-> {}, written |-> FALSE],
             DiskOf(e, {}), DiskOf(e, {0})}
          : e \in {<<File(s_a), File(s_b_c), File(s_d)>>,
                   <<File(s_src_a), Gitlink(s_sub)>>} }

Repos ==
    [fsm_mode : {"disabled", "hook", "ipc"},
     hookversion : {<<>>, <<1>>, <<2>>, <<3>>},
     ignore_case : BOOLEAN,
     untracked : BOOLEAN]

\* The in-core index of a new process over the entries on disk.
FreshIndex(entries, untracked, now) ==
    [cache |-> [k \in 1..Len(entries) |->
                   [name |-> entries[k].name, gitlink |-> entries[k].gitlink,
                    valid |-> FALSE, remove |-> FALSE]],
     cache_changed |-> {},
     fsmonitor_last_update |-> NULL,
     fsmonitor_dirty |-> NO_BITMAP,
     fsmonitor_has_run_once |-> FALSE,
     untracked |-> [present |-> untracked, use_fsmonitor |-> FALSE, invalidated |-> {}],
     now |-> now, tr |-> NoTrace, queries |-> <<>>, bug |-> FALSE]

\* ------------------------------------------------------ the state machine

VARIABLES
    istate,     \* struct index_state and what the process carries with it
    repo,       \* the settings: mode, core.fsmonitorhookversion, ignore_case
    disk,       \* the index file
    phase,      \* where the process stands: start, read, loaded, filled, failed
    proc,       \* the number of the running process
    oracle,     \* the payloads the oracle of this behaviour answers with
    ev          \* the last operation

vars == <<istate, repo, disk, phase, proc, oracle, ev>>

\* The lifecycle: processes that load, use, write and reload one index file.
Init ==
    /\ repo \in {r \in Repos : /\ r.fsm_mode = "hook" \/ r.hookversion = <<>>
                               /\ r.hookversion # <<3>>
                               /\ r.untracked}
    /\ disk \in FewDisks
    /\ oracle = FewPayloads
    /\ istate = FreshIndex(disk.entries, repo.untracked, ClockStart)
    /\ phase = "start"
    /\ proc = 1
    /\ ev = [op |-> "init", err |-> ""]

GateOpen(ist) == fsmonitor_enabled(repo) /\ ~ist.fsmonitor_has_run_once

\* The oracle results a refresh of ist can consume.
Res2In(ist) == IF GateOpen(ist) THEN Results2(oracle) ELSE {NoRes}
Res1In(ist, res2) ==
    IF /\ GateOpen(ist)
       /\ repo.fsm_mode = "hook"
       /\ \/ fsmonitor_hook_version(repo) = 1
          \/ fsmonitor_hook_version(repo) = -1 /\ ~res2.ok
    THEN Results1(oracle) ELSE {NoRes}
\* The bytes a read outside the response buffer can yield.
UbIn(res2, res1) ==
    IF \/ res2.ok /\ \A k \in 1..Len(res2.out) : res2.out[k] # NUL
       \/ res1.ok /\ res1.out # <<>> /\ res1.out[1] = NUL
    THEN {NUL, SLASH} ELSE {NUL}

\* An operation starts with no trace of its own.
Enter(ist) == [ist EXCEPT !.tr = NoTrace]

\* The index loader reads the extension of the index file.
ReadExtension ==
    /\ phase = "start"
    /\ disk.ext # NULL
    /\ LET r == read_fsmonitor_extension(Enter(istate), disk.ext, NUL)
       IN  /\ istate' = r.ist
           /\ phase' = IF r.err = "" THEN "read" ELSE "failed"
           /\ ev' = [op |-> "read", err |-> r.err]
    /\ UNCHANGED <<repo, disk, proc, oracle>>

\* The index loader's last step on a loaded index (post_read_index_from).
Tweak ==
    /\ \/ phase = "read"
       \/ phase = "start" /\ disk.ext = NULL
    /\ \E res2 \in Res2In(istate) : \E res1 \in Res1In(istate, res2) :
       \E ub \in UbIn(res2, res1) :
         istate' = tweak_fsmonitor(Enter(istate), repo, res2, res1, ub)
    /\ istate'.now <= MaxClock
    /\ phase' = IF istate'.bug THEN "failed" ELSE "loaded"
    /\ ev' = [op |-> "tweak", err |-> ""]
    /\ UNCHANGED <<repo, disk, proc, oracle>>

\* A caller refreshes: on a loaded index, or on an index built in core.
Refresh ==
    /\ phase \in {"start", "loaded"}
    /\ \E res2 \in Res2In(istate) : \E res1 \in Res1In(istate, res2) :
       \E ub \in UbIn(res2, res1) :
         istate' = refresh_fsmonitor(Enter(istate), repo, res2, res1, ub)
    /\ istate'.now <= MaxClock
    /\ phase' = "loaded"
    /\ ev' = [op |-> "refresh", err |-> ""]
    /\ UNCHANGED <<repo, disk, proc, oracle>>

\* A caller turns the feature on (update-index --fsmonitor).
Add ==
    /\ phase = "loaded"
    /\ \E res2 \in Res2In(istate) : \E res1 \in Res1In(istate, res2) :
       \E ub \in UbIn(res2, res1) :
         istate' = add_fsmonitor(Enter(istate), repo, res2, res1, ub)
    /\ istate'.now <= MaxClock
    /\ ev' = [op |-> "add", err |-> ""]
    /\ UNCHANGED <<repo, disk, phase, proc, oracle>>

\* A caller turns the feature off (update-index --no-fsmonitor).
Remove ==
    /\ phase = "loaded"
    /\ istate' = remove_fsmonitor(Enter(istate))
    /\ ev' = [op |-> "remove", err |-> ""]
    /\ UNCHANGED <<repo, disk, phase, proc, oracle>>

\* A caller marks an entry for removal (CE_REMOVE).
MarkRemove ==
    /\ phase = "loaded"
    /\ proc < MaxProc
    /\ \A k \in 1..Len(istate.cache) : ~istate.cache[k].remove
    /\ \E k \in 1..Len(istate.cache) :
         istate' = [Enter(istate) EXCEPT !.cache[k].remove = TRUE]
    /\ ev' = [op |-> "mark_remove", err |-> ""]
    /\ UNCHANGED <<repo, disk, phase, proc, oracle>>

\* The index writer materializes the bitmap when the index holds a token.
Fill ==
    /\ phase = "loaded"
    /\ proc < MaxProc
    /\ istate.fsmonitor_last_update # NULL
    /\ istate' = fill_fsmonitor_bitmap(Enter(istate))
    /\ phase' = "filled"
    /\ ev' = [op |-> "fill", err |-> ""]
    /\ UNCHANGED <<repo, disk, proc, oracle>>

Written(cache) == SelectSeq(cache, LAMBDA ce : ~ce.remove)

\* The index file with the entries of cache that are not marked for removal.
DiskWritten(cache, ext) ==
    [entries |-> [k \in 1..Len(Written(cache)) |->
                     [name |-> Written(cache)[k].name, gitlink |-> Written(cache)[k].gitlink]],
     ext |-> ext,
     clean |-> IF ext = NULL THEN {}
               ELSE {cache[k].name : k \in {j \in 1..Len(cache) :
                                               cache[j].valid /\ ~cache[j].remove}},
     written |-> TRUE]

\* The index writer emits the extension with the entries not marked for removal.
Write ==
    /\ phase = "filled"
    /\ LET r == write_fsmonitor_extension(Enter(istate))
       IN  /\ istate' = r.ist
           /\ disk' = DiskWritten(istate.cache, r.sb)
           /\ phase' = IF r.bug THEN "failed" ELSE "loaded"
    /\ ev' = [op |-> "write", err |-> ""]
    /\ UNCHANGED <<repo, proc, oracle>>

\* The index writer on an index without a token: no extension is written.
WriteNoExtension ==
    /\ phase = "loaded"
    /\ proc < MaxProc
    /\ istate.fsmonitor_last_update = NULL
    /\ disk' = DiskWritten(istate.cache, NULL)
    /\ istate' = Enter(istate)
    /\ ev' = [op |-> "write_no_extension", err |-> ""]
    /\ UNCHANGED <<repo, phase, proc, oracle>>

\* The process ends and the next one starts on the index file.
Restart ==
    /\ phase = "loaded"
    /\ proc < MaxProc
    /\ proc' = proc + 1
    /\ istate' = FreshIndex(disk.entries, repo.untracked, istate.now)
    /\ phase' = "start"
    /\ ev' = [op |-> "restart", err |-> ""]
    /\ UNCHANGED <<repo, disk, oracle>>

Next ==
    \/ ReadExtension
    \/ Tweak
    \/ Refresh
    \/ Add
    \/ Remove
    \/ MarkRemove
    \/ Fill
    \/ Write
    \/ WriteNoExtension
    \/ Restart

Spec == Init /\ [][Next]_vars

\* One refresh of a freshly loaded (or in-core) index, over every index
\* file, setting and oracle response of the model.
InitRefresh ==
    /\ repo \in {r \in Repos : r.fsm_mode = "hook" \/ r.hookversion = <<>>}
    /\ disk \in InitialDisks
    /\ oracle = Payloads
    /\ istate = FreshIndex(disk.entries, repo.untracked, ClockStart)
    /\ phase = "start"
    /\ proc = 1
    /\ ev = [op |-> "init", err |-> ""]

NextRefresh ==
    \/ ReadExtension
    \/ Tweak
    \/ Refresh

SpecRefresh == InitRefresh /\ [][NextRefresh]_vars

\* ------------------------------------------ the path invalidator on its own

\* "FOO", "foo/x", "SRC/a", "Src", "src/A", "src/a/", "srca"
s_FOO == <<70, 79, 79>>
s_foo_x == <<102, 111, 111, 47, 120>>
s_SRC_a == <<83, 82, 67, 47, 97>>
s_Src == <<83, 114, 99>>
s_src_A == <<115, 114, 99, 47, 65>>
s_srca == <<115, 114, 99, 97>>

\* Indexes for the invalidator, in index order: the ones above that hold
\* entries, two whose names differ only by case ("SRC/a", "Src/A", "src/a";
\* "FOO", "foo/x"), and one with a sparse directory entry ("src/").
PathIndexes ==
    (IndexConfigs \ {<<>>})
    \cup { <<File(s_SRC_a), File(s_Src_A), File(s_src_a)>>,
           <<File(s_FOO), File(s_foo_x)>>,
           <<File(s_a), File(s_src_dir)>> }

\* The pathnames reported to the invalidator.
ReportedPaths ==
    { s_a, s_b_c, s_src, s_src_dir, s_src_a, s_SRC_dir, s_Src, s_src_A,
      s_src_a \o <<SLASH>>, s_srca, s_FOO, <<102, 111, 111>>, s_zz }

\* The pathnames one behaviour reports.
MaxReports == 2

\* A pathname with a trailing slash, and the directory form of a pathname.
EndsInSlash(p) == p # <<>> /\ p[Len(p)] = SLASH
DirForm(p) == IF EndsInSlash(p) THEN p ELSE Append(p, SLASH)

AllValid(ist) ==
    [ist EXCEPT !.cache = [k \in 1..Len(ist.cache) |-> [ist.cache[k] EXCEPT !.valid = TRUE]]]

Clean(ist) == {k \in 1..Len(ist.cache) : ist.cache[k].valid}

InitPaths ==
    /\ repo \in {r \in Repos : r.fsm_mode = "ipc" /\ r.hookversion = <<>>}
    /\ disk \in {[entries |-> e, ext |-> NULL, clean |-> {}, written |-> FALSE] :
                    e \in PathIndexes}
    /\ oracle = ReportedPaths
    /\ istate = AllValid(FreshIndex(disk.entries, repo.untracked, ClockStart))
    /\ phase = "paths"
    /\ proc = 1
    /\ ev = [op |-> "init", err |-> "", path |-> <<>>, n |-> 0]

\* The refresh loop hands one pathname to fsmonitor_refresh_callback.  ev
\* keeps the pathname, the index as the call found it, and whether the call
\* before it got the same pathname.
Report ==
    /\ phase = "paths"
    /\ ev.n < MaxReports
    /\ \E p \in oracle :
         /\ istate' = fsmonitor_refresh_callback(istate, p, NUL, repo.ignore_case)
         /\ ev' = [op |-> "report", err |-> "", path |-> p,
                   before |-> istate, n |-> ev.n + 1,
                   again |-> ev.op = "report" /\ ev.path = p]
    /\ UNCHANGED <<repo, disk, phase, proc, oracle>>

\* The directory forms handed to fsmonitor_refresh_callback_slash.
ConePaths == {DirForm(p) : p \in oracle}

\* fsmonitor_refresh_callback_slash on a directory form, from the position
\* index_name_pos gives for it; ev keeps the pathname, the index as the call
\* found it and the number the call returned.
ConeScan ==
    /\ phase = "paths"
    /\ ev.n < MaxReports
    /\ \E p \in ConePaths :
         LET r == fsmonitor_refresh_callback_slash(istate, p, index_name_pos(istate, p))
         IN  /\ istate' = r.ist
             /\ ev' = [op |-> "cone", err |-> "", path |-> p,
                       before |-> istate, n |-> ev.n + 1,
                       again |-> FALSE, nr_in_cone |-> r.n]
    /\ UNCHANGED <<repo, disk, phase, proc, oracle>>

NextPaths ==
    \/ Report
    \/ ConeScan

SpecPaths == InitPaths /\ [][NextPaths]_vars

\* ----------------------------------------------------- the codec on its own

MaxBit == 4

\* "12345678901" (a token longer than a V1 timestamp field)
s_long == <<49, 50, 51, 52, 53, 54, 55, 56, 57, 48, 49>>

Tokens == {s_t0, s_a, builtin_fake, decimal_ascii(ClockStart), s_long}

Bitmaps == {BitmapAt(S) : S \in SUBSET (0..MaxBit)}

\* An index of MaxBit + 1 entries named by one byte each.
CodecEntries == [k \in 1..(MaxBit + 1) |-> File(<<96 + k>>)]

InitCodec ==
    /\ repo \in {r \in Repos : r.fsm_mode = "ipc" /\ r.hookversion = <<>>
                               /\ ~r.ignore_case /\ r.untracked}
    /\ disk = [entries |-> CodecEntries, ext |-> NULL, clean |-> {}, written |-> FALSE]
    /\ oracle = {}
    /\ \E token \in Tokens, bm \in Bitmaps :
         istate = [FreshIndex(CodecEntries, TRUE, ClockStart)
                      EXCEPT !.fsmonitor_last_update = token, !.fsmonitor_dirty = bm]
    /\ phase = "filled"
    /\ proc = 1
    /\ ev = [op |-> "init", err |-> "", token |-> NULL, bitmap |-> NO_BITMAP]

\* write_fsmonitor_extension on a token and a bitmap; ev keeps both.
Emit ==
    /\ phase = "filled"
    /\ LET r == write_fsmonitor_extension(istate)
       IN  /\ disk' = [disk EXCEPT !.ext = r.sb, !.written = TRUE]
           /\ istate' = r.ist
           /\ phase' = IF r.bug THEN "failed" ELSE "emitted"
    /\ ev' = [op |-> "emit", err |-> "", token |-> istate.fsmonitor_last_update,
              bitmap |-> istate.fsmonitor_dirty]
    /\ UNCHANGED <<repo, proc, oracle>>

\* read_fsmonitor_extension on the emitted bytes, into a new index.
Parse ==
    /\ phase = "emitted"
    /\ LET r == read_fsmonitor_extension(
                    FreshIndex(disk.entries, TRUE, istate.now), disk.ext, NUL)
       IN  /\ istate' = r.ist
           /\ ev' = [ev EXCEPT !.op = "parse", !.err = r.err]
    /\ phase' = "parsed"
    /\ UNCHANGED <<repo, disk, proc, oracle>>

NextCodec ==
    \/ Emit
    \/ Parse

SpecCodec == InitCodec /\ [][NextCodec]_vars

\* ------------------------------------------- the parser on arbitrary bytes

\* An extension from its fields: version, token field, length field, bitmap bytes.
ExtensionOf(hdr_version, field, ewah_size, ewah) ==
    put_be(4, hdr_version) \o field \o put_be(4, ewah_size) \o ewah

Prefixes(s) == {SubSeq(s, 1, n) : n \in 0..Len(s)}

\* The index the parser runs on: three entries.
ParseEntries == <<File(s_a), File(s_b_c), File(s_d)>>

\* Bitmaps of the parser's inputs: within the three entries, and one with a
\* bit beyond them.
ParseBitmaps == {BitmapAt({}), BitmapAt({0}), BitmapAt({1, 2}), BitmapAt({4})}

\* The bytes handed to the parser: whole extensions of both versions with
\* each bitmap; every prefix of a version 1 and a version 2 extension; a
\* version field of 0 or 3; a length field one more or one less than the
\* bitmap's bytes; and bytes after the bitmap.
ParseInputs ==
    UNION { {ExtensionV2(s_t0, bm), ExtensionV1(ClockStart - 1, bm),
             ExtensionOf(0, s_t0 \o <<NUL>>, Len(ewah_serialize_strbuf(bm)),
                         ewah_serialize_strbuf(bm)),
             ExtensionOf(3, s_t0 \o <<NUL>>, Len(ewah_serialize_strbuf(bm)),
                         ewah_serialize_strbuf(bm)),
             ExtensionOf(2, s_t0 \o <<NUL>>, Len(ewah_serialize_strbuf(bm)) + 1,
                         ewah_serialize_strbuf(bm) \o <<NUL>>),
             ExtensionOf(2, s_t0 \o <<NUL>>, Len(ewah_serialize_strbuf(bm)) - 1,
                         ewah_serialize_strbuf(bm)),
             ExtensionOf(2, s_t0 \o <<NUL>>, Len(ewah_serialize_strbuf(bm)),
                         ewah_serialize_strbuf(bm) \o <<NUL>>)}
          : bm \in ParseBitmaps }
    \cup Prefixes(ExtensionV2(s_long, BitmapAt({})))
    \cup Prefixes(ExtensionV1(ClockStart - 1, BitmapAt({})))

\* The bytes that follow the extension in the mapped index file.
BytesAfter == {NUL, 1}

InitParse ==
    /\ repo \in {r \in Repos : r.fsm_mode = "ipc" /\ r.hookversion = <<>>
                               /\ ~r.ignore_case /\ r.untracked}
    /\ disk \in {[entries |-> ParseEntries, ext |-> x, clean |-> {}, written |-> FALSE] :
                    x \in ParseInputs}
    /\ oracle = {}
    /\ istate = FreshIndex(ParseEntries, TRUE, ClockStart)
    /\ phase = "start"
    /\ proc = 1
    /\ ev = [op |-> "init", err |-> ""]

\* read_fsmonitor_extension on the bytes; ev keeps its result and locals.
ParseBytes ==
    /\ phase = "start"
    /\ \E ub \in BytesAfter :
         LET r == read_fsmonitor_extension(istate, disk.ext, ub)
         IN  /\ istate' = r.ist
             /\ ev' = [op |-> "parse_bytes", err |-> r.err, top |-> r.top,
                       hdr_version |-> r.hdr_version, ewah_size |-> r.ewah_size,
                       ret |-> r.ret, ub |-> ub]
    /\ phase' = "parsed_bytes"
    /\ UNCHANGED <<repo, disk, proc, oracle>>

NextParse == ParseBytes

SpecParse == InitParse /\ [][NextParse]_vars

\* ------------------------------------------------------------- properties

NamesAt(ist, S) == {ist.cache[k].name : k \in S}
Flags(ist) == [k \in 1..Len(ist.cache) |-> ist.cache[k].valid]
Changed(ist) == "FSMONITOR_CHANGED" \in ist.cache_changed

\* The matching rules for one reported path p as sets of cache positions:
\* the exact path, else the directory cone; the case-folded lookups only
\* when nothing matched and the file system ignores case.
Cone(ist, d) == {k \in 1..Len(ist.cache) : starts_with(ist.cache[k].name, d)}
ExactMatched(ist, p) ==
    IF EndsInSlash(p) THEN Cone(ist, p)
    ELSE IF \E k \in 1..Len(ist.cache) : ist.cache[k].name = p
    THEN {k \in 1..Len(ist.cache) : ist.cache[k].name = p}
    ELSE Cone(ist, Append(p, SLASH))
FoldMatched(ist, p) ==
    IF index_file_exists(ist, p) >= 0 THEN {index_file_exists(ist, p) + 1}
    ELSE LET d == index_dir_exists2(ist, IF EndsInSlash(p)
                                         THEN SubSeq(p, 1, Len(p) - 1) ELSE p)
         IN  IF d = NULL THEN {} ELSE Cone(ist, Append(d, SLASH))
Matched(ist, p, ignore_case) ==
    IF ignore_case /\ ExactMatched(ist, p) = {}
    THEN FoldMatched(ist, p)
    ELSE ExactMatched(ist, p)

\* The sum of the in-cone counts of the reported paths.
RECURSIVE InConeSum(_, _, _, _)
InConeSum(ist, names, i, ignore_case) ==
    IF i > Len(names) THEN 0
    ELSE Cardinality(Matched(ist, names[i], ignore_case))
         + InConeSum(ist, names, i + 1, ignore_case)

\* The records of a response: one per NUL from bol on, and one for the bytes
\* after the last NUL.
RecordCount(buf, bol) ==
    Cardinality({i \in (bol + 1)..Len(buf) : buf[i] = NUL})
    + (IF Len(buf) > bol /\ buf[Len(buf)] # NUL THEN 1 ELSE 0)

\* The refresh of the last operation passed the guard and applied a
\* successful, non-trivial response.
AppliedPaths ==
    /\ ev.op \in {"tweak", "refresh", "add"}
    /\ istate.tr.passed
    /\ istate.tr.query_success
    /\ ~istate.tr.is_trivial

\* C1: when a refresh has passed the guard and its query failed or its
\* response was trivial, no entry has CE_FSMONITOR_VALID when it returns.
C1_FailedOrTrivialLeavesNoClean ==
    (/\ ev.op \in {"tweak", "refresh", "add"}
     /\ istate.tr.passed
     /\ ~istate.tr.query_success \/ istate.tr.is_trivial)
        => Clean(istate) = {}

C1_Witness ==
    /\ ev.op = "tweak"
    /\ istate.tr.passed
    /\ ~istate.tr.query_success \/ istate.tr.is_trivial
    /\ istate.tr.valid_before # {}
    /\ Clean(istate) = {}

\* C2: after a successful non-trivial response the entries with
\* CE_FSMONITOR_VALID are the ones that had it before, minus the entries
\* matched by the reported paths under the matching rules.
C2_CleanIsInitialMinusMatched ==
    AppliedPaths =>
        Clean(istate) =
            istate.tr.valid_before
            \ UNION {Matched(istate, istate.tr.names[i], repo.ignore_case) :
                        i \in 1..Len(istate.tr.names)}

\* The oracle calls of this process, over all its refreshes.
RECURSIVE CallCount(_)
CallCount(queries) ==
    IF queries = <<>> THEN 0 ELSE Len(Head(queries)) + CallCount(Tail(queries))

\* C3 (as stated): within one process the oracle is called at most once.
C3_OracleCalledAtMostOnce == CallCount(istate.queries) <= 1

\* C3 (amended): within one process at most one refresh passes the
\* fsmonitor_has_run_once guard; that refresh sends one IPC query, or calls
\* the hook not at all, once, or twice (version 2, then version 1).
C3_OneRefreshPassesTheGuard ==
    /\ Len(istate.queries) <= 1
    /\ \A i \in 1..Len(istate.queries) :
          istate.queries[i] \in {<<>>, <<"ipc">>, <<"hook2">>, <<"hook1">>,
                                 <<"hook2", "hook1">>}

C3_Witness ==
    /\ ev.op = "refresh"
    /\ fsmonitor_enabled(repo)
    /\ ~istate.tr.passed
    /\ istate.queries = << <<"hook2", "hook1">> >>

\* C4: when the feature is enabled and the index holds a token, the token is
\* not the empty string.
C4_TokenNonEmpty ==
    (/\ fsmonitor_enabled(repo)
     /\ phase \in {"loaded", "filled"}
     /\ istate.fsmonitor_last_update # NULL)
        => istate.fsmonitor_last_update # <<>>

\* C5: when the mode is disabled, after remove_fsmonitor or tweak_fsmonitor
\* no entry has CE_FSMONITOR_VALID and the index holds no token.
C5_DisabledLeavesNoCleanNoToken ==
    (repo.fsm_mode = "disabled" /\ ev.op \in {"tweak", "remove"})
        => /\ Clean(istate) = {}
           /\ istate.fsmonitor_last_update = NULL

C5_Witness ==
    /\ repo.fsm_mode = "disabled"
    /\ ev.op = "tweak"
    /\ disk.ext # NULL
    /\ phase = "loaded"
    /\ Changed(istate)
    /\ istate.fsmonitor_last_update = NULL

\* C6 (as stated): count is the sum of the in-cone counts of the reported
\* paths, and FSMONITOR_CHANGED is set exactly when that sum exceeds the
\* threshold.
C6_ChangedIffInConeSumExceeds ==
    AppliedPaths =>
        /\ istate.tr.count = InConeSum(istate, istate.tr.names, 1, repo.ignore_case)
        /\ Changed(istate) <=>
              \/ "FSMONITOR_CHANGED" \in istate.tr.changed_before
              \/ InConeSum(istate, istate.tr.names, 1, repo.ignore_case)
                     > fsmonitor_force_update_threshold

\* C6 (amended): count is the number of records in the response, whether or
\* not they match an entry, and FSMONITOR_CHANGED is set exactly when that
\* number exceeds the threshold.
C6_ChangedIffRecordCountExceeds ==
    AppliedPaths =>
        /\ istate.tr.count = RecordCount(istate.tr.query_result, istate.tr.bol)
        /\ Changed(istate) <=>
              \/ "FSMONITOR_CHANGED" \in istate.tr.changed_before
              \/ RecordCount(istate.tr.query_result, istate.tr.bol)
                     > fsmonitor_force_update_threshold

C6_Witness ==
    /\ AppliedPaths
    /\ istate.tr.count > fsmonitor_force_update_threshold
    /\ "FSMONITOR_CHANGED" \notin istate.tr.changed_before
    /\ Changed(istate)
    /\ InConeSum(istate, istate.tr.names, 1, repo.ignore_case) = 0

\* Entry k is the reported path or lies under its directory form.
ExactHit(ist, k, p) ==
    \/ ist.cache[k].name = p
    \/ starts_with(ist.cache[k].name, DirForm(p))

FoldEqual(ist, k, p) == FoldStr(ist.cache[k].name) = FoldStr(p)

C8_SecondReportChangesNothing ==
    (ev.op = "report" /\ ev.again) =>
        /\ Flags(istate) = Flags(ev.before)
        /\ istate.untracked = ev.before.untracked

C8_Witness ==
    /\ ev.op = "report"
    /\ ev.again
    /\ repo.ignore_case
    /\ EndsInSlash(ev.path)
    /\ Clean(istate) # 1..Len(istate.cache)
    /\ istate.untracked.invalidated # {}

\* tweak_fsmonitor has just run, feature enabled, on an index file that
\* fill_fsmonitor_bitmap and write_fsmonitor_extension produced.
ReloadedWritten ==
    /\ ev.op = "tweak"
    /\ phase = "loaded"
    /\ fsmonitor_enabled(repo)
    /\ disk.written
    /\ disk.ext # NULL

\* C9 (as stated): after tweak_fsmonitor on the written index an entry has
\* CE_FSMONITOR_VALID if and only if it had it when the bitmap was filled.
C9_CleanRoundTrips ==
    ReloadedWritten => NamesAt(istate, Clean(istate)) = disk.clean

\* C9 (amended): marking the entries and applying the bitmap restores the
\* flags as they were when the bitmap was filled; the refresh that
\* tweak_fsmonitor then runs can only clear flags.
C9_CleanRoundTripsUpToRefresh ==
    ReloadedWritten =>
        /\ istate.tr.passed
        /\ NamesAt(istate, istate.tr.valid_before) = disk.clean
        /\ Clean(istate) \subseteq istate.tr.valid_before

C9_Witness ==
    /\ ReloadedWritten
    /\ disk.clean # {}
    /\ disk.clean # Names(disk.entries)
    /\ Len(disk.entries) = 2
    /\ Clean(istate) # istate.tr.valid_before

\* C10: read_fsmonitor_extension on the bytes written by
\* write_fsmonitor_extension (version 2, the token, one NUL, the length of the
\* bitmap, the bitmap) yields the token and the bitmap that were written.
C10_CodecRoundTrip ==
    phase = "parsed" =>
        /\ ev.err = ""
        /\ istate.fsmonitor_last_update = ev.token
        /\ istate.fsmonitor_dirty = ev.bitmap
        /\ SubSeq(disk.ext, 1, 4) = <<0, 0, 0, INDEX_EXTENSION_VERSION2>>
        /\ SubSeq(disk.ext, 5, 4 + Len(ev.token)) = ev.token
        /\ disk.ext[5 + Len(ev.token)] = NUL
        /\ get_be(SubSeq(disk.ext, 6 + Len(ev.token), 9 + Len(ev.token)))
               = Len(disk.ext) - (9 + Len(ev.token))

C10_Witness ==
    /\ phase = "parsed"
    /\ ev.err = ""
    /\ ev.token = builtin_fake
    /\ ev.bitmap.bits = {0, MaxBit}
    /\ istate.fsmonitor_dirty = ev.bitmap

\* The version field of the bytes handed to the parser (read when they hold it).
VersionField == get_be(SubSeq(disk.ext, 1, 4))

\* C11 (as stated): Corrupt when the input is shorter than 4 + 1 + 4 bytes,
\* BadVersion when the version is neither 1 nor 2, CorruptBitmap when the
\* bitmap parser consumed a number of bytes other than ewah_size, and success
\* with a token and a bitmap in every other case.
C11_ParseOutcomes ==
    ev.op = "parse_bytes" =>
        IF Len(disk.ext) < 9 THEN ev.err = "Corrupt"
        ELSE IF VersionField \notin {1, 2} THEN ev.err = "BadVersion"
        ELSE IF ev.ret # ev.ewah_size THEN ev.err = "CorruptBitmap"
        ELSE /\ ev.err = ""
             /\ istate.fsmonitor_last_update # NULL
             /\ istate.fsmonitor_dirty # NO_BITMAP

\* C11 (amended): as above, except that the parser itself asserts the
\* bitmap's bit_size against the number of entries: a well-formed extension
\* whose bitmap is wider than the index ends in BUG(), and only the others
\* succeed with a token and a bitmap.
C11_ParseOutcomesWithAssertion ==
    ev.op = "parse_bytes" =>
        IF Len(disk.ext) < 9 THEN ev.err = "Corrupt" /\ istate.fsmonitor_last_update = NULL
        ELSE IF VersionField \notin {1, 2}
        THEN ev.err = "BadVersion" /\ istate.fsmonitor_last_update = NULL
        ELSE IF ev.ret # ev.ewah_size
        THEN ev.err = "CorruptBitmap" /\ istate.fsmonitor_dirty = NO_BITMAP
        ELSE /\ istate.fsmonitor_last_update # NULL
             /\ istate.fsmonitor_dirty # NO_BITMAP
             /\ ev.err = IF istate.fsmonitor_dirty.bit_size > Len(istate.cache)
                         THEN "BUG" ELSE ""

\* A bitmap parser that consumed fewer bytes than ewah_size.
C11_Witness ==
    /\ ev.op = "parse_bytes"
    /\ ev.err = "CorruptBitmap"
    /\ ev.ret > 0
    /\ ev.ret < ev.ewah_size

\* The refresh of the last operation passed the guard and its query succeeded.
Answered ==
    /\ ev.op \in {"tweak", "refresh", "add"}
    /\ istate.tr.passed
    /\ istate.tr.query_success

\* The payload of the response: the bytes of query_result from bol on.
PayloadOf(tr) == SubSeq(tr.query_result, tr.bol + 1, Len(tr.query_result))

\* C12: a successful response is treated as trivial if and only if its
\* payload is exactly "/"; every other payload is applied record by record.
C12_TrivialIffPayloadIsSlash ==
    Answered =>
        /\ istate.tr.is_trivial <=> PayloadOf(istate.tr) = <<SLASH>>
        /\ ~istate.tr.is_trivial =>
               istate.tr.count = RecordCount(istate.tr.query_result, istate.tr.bol)

\* A refresh in hook mode that passed the guard on an index without a token.
HookRefreshWithoutToken ==
    /\ ev.op \in {"tweak", "refresh", "add"}
    /\ istate.tr.passed
    /\ repo.fsm_mode = "hook"
    /\ istate.tr.token_before = NULL

\* C13: in hook mode a refresh of an index without a stored token calls no
\* hook, leaves no entry with CE_FSMONITOR_VALID, and leaves as token the
\* decimal timestamp it took, whatever hook version is configured.
C13_NoTokenSynthesizesTimestamp ==
    HookRefreshWithoutToken =>
        /\ istate.tr.calls = <<>>
        /\ Clean(istate) = {}
        /\ istate.fsmonitor_last_update = decimal_ascii(istate.tr.now)

\* A refresh in hook mode that passed the guard on an index with a token.
HookRefreshWithToken ==
    /\ ev.op \in {"tweak", "refresh", "add"}
    /\ istate.tr.passed
    /\ repo.fsm_mode = "hook"
    /\ istate.tr.token_before # NULL

\* The V2 call returned success with an empty token field.
V2EmptyToken ==
    /\ istate.tr.v2_result = "success"
    /\ c_string(istate.tr.query_result) = <<>>

\* C14 (as stated): a V2 call that succeeds with an empty token field is
\* followed by a V1 call in the same refresh; so is a V2 call that fails
\* when the version is unset; a failed V2 call with version 2 configured is
\* not.
C14_EmptyTokenDowngradesToV1 ==
    HookRefreshWithToken =>
        /\ V2EmptyToken => istate.tr.calls = <<"hook2", "hook1">>
        /\ (istate.tr.v2_result = "failed" /\ fsmonitor_hook_version(repo) = -1)
               => istate.tr.calls = <<"hook2", "hook1">>
        /\ (istate.tr.v2_result = "failed" /\ fsmonitor_hook_version(repo) = 2)
               => istate.tr.calls = <<"hook2">>

\* C14 (amended): the V1 call follows the V2 call only when the V2 call
\* failed and the version is unset.  A V2 call that succeeds with an empty
\* token field is not followed by a V1 call: the query counts as failed and
\* every entry is invalidated.
C14_V1FollowsOnlyFailedV2 ==
    HookRefreshWithToken =>
        /\ istate.tr.calls =
              IF fsmonitor_hook_version(repo) = 1 THEN <<"hook1">>
              ELSE IF istate.tr.v2_result = "failed" /\ fsmonitor_hook_version(repo) = -1
              THEN <<"hook2", "hook1">>
              ELSE <<"hook2">>
        /\ V2EmptyToken =>
              /\ ~istate.tr.query_success
              /\ Clean(istate) = {}

\* A V2 call with the version unset that succeeded with an empty token
\* field, on an index that had a clean entry.
C14_Witness ==
    /\ HookRefreshWithToken
    /\ fsmonitor_hook_version(repo) = -1
    /\ V2EmptyToken
    /\ istate.tr.valid_before # {}

\* A refresh of the last operation passed the mode gate and the run-once gate.
Refreshed ==
    /\ ev.op \in {"tweak", "refresh", "add"}
    /\ istate.tr.passed

\* C15: after a refresh that passed both gates the index token is the token
\* of that refresh, whatever the token before it was: the token field of the
\* response when the IPC query or the V2 hook query succeeded, "builtin:fake"
\* when the IPC query failed, the timestamp taken before the hook call when
\* protocol V1 is used (by configuration or by fallback), and the empty
\* string the refresh started from in the cases that are left.
C15_TokenIsNewToken ==
    Refreshed =>
        istate.fsmonitor_last_update =
            IF repo.fsm_mode = "ipc"
            THEN (IF istate.tr.query_success
                  THEN c_string(istate.tr.query_result) ELSE builtin_fake)
            ELSE IF istate.tr.hook_version = 1
            THEN decimal_ascii(istate.tr.now)
            ELSE IF istate.tr.v2_result = "success"
            THEN c_string(istate.tr.query_result)
            ELSE <<>>

\* A refresh that fell back to V1 on an index with a stored token.
C15_Witness ==
    /\ Refreshed
    /\ istate.tr.calls = <<"hook2", "hook1">>
    /\ istate.tr.token_before # NULL
    /\ istate.fsmonitor_last_update = decimal_ascii(istate.tr.now)
    /\ istate.fsmonitor_last_update # istate.tr.token_before

\* C16: on a trivial or failed response the refresh adds FSMONITOR_CHANGED
\* if and only if an entry had CE_FSMONITOR_VALID before it, and turns
\* use_fsmonitor of the untracked cache off; on a successful non-trivial
\* response it turns use_fsmonitor on.
C16_ChangedIffAnyCleanBefore ==
    Refreshed =>
        IF istate.tr.query_success /\ ~istate.tr.is_trivial
        THEN istate.untracked.present => istate.untracked.use_fsmonitor
        ELSE /\ Changed(istate) <=>
                   \/ "FSMONITOR_CHANGED" \in istate.tr.changed_before
                   \/ istate.tr.valid_before # {}
             /\ istate.untracked.present => ~istate.untracked.use_fsmonitor

\* A trivial response on an index with entries of which none was clean:
\* FSMONITOR_CHANGED stays unset.
C16_Witness ==
    /\ Refreshed
    /\ istate.tr.query_success
    /\ istate.tr.is_trivial
    /\ istate.cache # <<>>
    /\ istate.tr.valid_before = {}
    /\ ~Changed(istate)
    /\ istate.untracked.present

\* C17: fsmonitor_refresh_callback_slash on a pathname that ends in a slash
\* clears CE_FSMONITOR_VALID on the entries that have the pathname as a
\* prefix and on no other entry, and returns the number of those entries.
C17_ConeClearsExactlyThePrefixed ==
    ev.op = "cone" =>
        /\ Clean(istate) = Clean(ev.before) \ Cone(ev.before, ev.path)
        /\ ev.nr_in_cone = Cardinality(Cone(ev.before, ev.path))

\* Two entries in the cone, and a clean entry behind it that shares the
\* pathname without the slash.
C17_Witness ==
    /\ ev.op = "cone"
    /\ ev.nr_in_cone = 2
    /\ Cone(ev.before, ev.path) \subseteq Clean(ev.before)
    /\ \E k \in Clean(istate) :
          starts_with(istate.cache[k].name, SubSeq(ev.path, 1, Len(ev.path) - 1))

\* What refresh_fsmonitor can change of the index: the entries' flags, the
\* token, cache_changed, the untracked cache, the guard, and the oracle
\* calls made in this process.
RefreshFrame(ist) ==
    <<Flags(ist), ist.fsmonitor_last_update, ist.cache_changed, ist.untracked,
      ist.fsmonitor_has_run_once, ist.queries, ist.fsmonitor_dirty>>

\* C18: a call of refresh_fsmonitor with the mode disabled or with
\* fsmonitor_has_run_once set changes neither flags, token, cache_changed,
\* untracked cache nor the guard and calls no oracle; and no operation on the
\* index of a process clears the guard once it is set.
C18_GatedRefreshChangesNothing ==
    [][/\ (/\ ev'.op = "refresh"
           /\ ~fsmonitor_enabled(repo) \/ istate.fsmonitor_has_run_once)
          => (RefreshFrame(istate') = RefreshFrame(istate) /\ ~istate'.tr.passed)
       /\ (istate.fsmonitor_has_run_once /\ proc' = proc)
          => istate'.fsmonitor_has_run_once]_vars

\* A second refresh in a process, on an index with a clean entry.
C18_Witness ==
    /\ ev.op = "refresh"
    /\ ~istate.tr.passed
    /\ istate.fsmonitor_has_run_once
    /\ Clean(istate) # {}
    /\ istate.queries # <<>>

\* A step that is a call of add_fsmonitor: by the caller, or by
\* tweak_fsmonitor on an index without a loaded bitmap when the feature is
\* enabled.
AddStep ==
    \/ ev'.op = "add"
    \/ /\ ev'.op = "tweak"
       /\ istate.fsmonitor_dirty = NO_BITMAP
       /\ fsmonitor_enabled(repo)

\* What add_fsmonitor leaves on an index that had no token, but for the token.
AddedWithoutToken ==
    /\ istate'.fsmonitor_last_update # NULL
    /\ Changed(istate')
    /\ Clean(istate') = {}
    /\ GateOpen(istate) => istate'.tr.passed

\* C19: add_fsmonitor on an index without a token returns with a non-empty
\* token, FSMONITOR_CHANGED set, no entry with CE_FSMONITOR_VALID and the
\* refresh attempted; on an index with a token it changes nothing.
C19_AddLeavesNonEmptyToken ==
    [][AddStep =>
         IF istate.fsmonitor_last_update = NULL
         THEN AddedWithoutToken /\ istate'.fsmonitor_last_update # <<>>
         ELSE RefreshFrame(istate') = RefreshFrame(istate) /\ ~istate'.tr.passed]_vars

\* The positions, in the order of writing, of the written entries without
\* CE_FSMONITOR_VALID.
DirtyWritten(ist) ==
    {k - 1 : k \in {j \in 1..Len(Written(ist.cache)) : ~Written(ist.cache)[j].valid}}

\* C20 (as stated): fill_fsmonitor_bitmap sets bit k exactly when the k-th
\* entry not marked for removal lacks CE_FSMONITOR_VALID, and the bitmap's
\* bit_size is the number of entries not marked for removal.
C20_BitSizeIsWrittenCount ==
    ev.op = "fill" =>
        /\ istate.fsmonitor_dirty.bits = DirtyWritten(istate)
        /\ istate.fsmonitor_dirty.bit_size = Len(Written(istate.cache))

\* C20 (amended): the bits are as stated; bit_size is one more than the
\* highest bit set (0 when no bit is set), which is at most the number of
\* entries not marked for removal.
C20_BitSizeIsPastHighestDirty ==
    ev.op = "fill" =>
        /\ istate.fsmonitor_dirty.bits = DirtyWritten(istate)
        /\ istate.fsmonitor_dirty.bit_size =
              Cardinality({k \in 0..(Len(Written(istate.cache)) - 1) :
                              \E d \in DirtyWritten(istate) : k <= d})
        /\ istate.fsmonitor_dirty.bit_size <= Len(Written(istate.cache))

\* An entry marked for removal in front of a dirty entry, and a clean entry
\* written last.
C20_Witness ==
    /\ ev.op = "fill"
    /\ \E k \in 1..Len(istate.cache) :
          /\ istate.cache[k].remove
          /\ \E j \in (k + 1)..Len(istate.cache) :
                ~istate.cache[j].remove /\ ~istate.cache[j].valid
    /\ istate.fsmonitor_dirty.bits # {}
    /\ istate.fsmonitor_dirty.bit_size < Len(Written(istate.cache))

\* The offsets (from 1) in a payload at which a non-empty record starts.
RecordStarts(P) == {i \in 1..Len(P) : P[i] # NUL /\ (i = 1 \/ P[i - 1] = NUL)}

\* name is the record of payload P that starts at offset i.
RecordAt(P, i, name) ==
    /\ i + Len(name) - 1 <= Len(P)
    /\ SubSeq(P, i, i + Len(name) - 1) = name
    /\ \A j \in 1..Len(name) : name[j] # NUL
    /\ i + Len(name) > Len(P) \/ P[i + Len(name)] = NUL

\* C21: on a successful non-trivial response the strings handed to
\* fsmonitor_refresh_callback are the non-empty records of the payload, each
\* once and in the order of the payload (a last record without NUL included);
\* no empty string is handed to it.
C21_OnlyNonEmptyRecordsHanded ==
    AppliedPaths =>
        /\ \A k \in 1..Len(istate.tr.names) : istate.tr.names[k] # <<>>
        /\ Len(istate.tr.names) = Cardinality(RecordStarts(PayloadOf(istate.tr)))
        /\ \A k \in 1..Len(istate.tr.names) :
              \E i \in RecordStarts(PayloadOf(istate.tr)) :
                  /\ Cardinality({j \in RecordStarts(PayloadOf(istate.tr)) : j < i}) = k - 1
                  /\ RecordAt(PayloadOf(istate.tr), i, istate.tr.names[k])

\* The index holds a bitmap (istate->fsmonitor_dirty is not NULL).
HoldsBitmap(ist) == ist.fsmonitor_dirty # NO_BITMAP

\* The step is a successful read_fsmonitor_extension or a
\* fill_fsmonitor_bitmap: the two places that assign istate->fsmonitor_dirty
\* a new bitmap.
AssignsBitmap == ev'.op = "fill" \/ (ev'.op = "read" /\ ev'.err = "")

ParseFailed ==
    ev.op = "parse_bytes" /\ ev.err \in {"Corrupt", "BadVersion", "CorruptBitmap"}

\* C23: when read_fsmonitor_extension returns an error (too short, bad
\* version, or bitmap parse mismatch), the token and the dirty bitmap of the
\* index are the ones it had before the call.
C23_FailedParseLeavesIndexUnchanged ==
    ParseFailed =>
        /\ istate.fsmonitor_last_update
              = FreshIndex(ParseEntries, TRUE, ClockStart).fsmonitor_last_update
        /\ istate.fsmonitor_dirty
              = FreshIndex(ParseEntries, TRUE, ClockStart).fsmonitor_dirty

\* C24: for every input that passes the minimum-length check, of version 1
\* and of version 2, read_fsmonitor_extension reads no byte at an offset at
\* or beyond sz: the version, token, ewah_size and bitmap reads end within
\* the sz bytes.
C24_ReadsStayWithinSz ==
    (ev.op = "parse_bytes" /\ ev.err # "Corrupt") => ev.top <= Len(disk.ext)

====
